---- MODULE Spec2Model ----
(***************************************************************************)
(* A model of the event-driven orchestration core of pt-web-automation:    *)
(*   - the event bus              (src/app/core/event.py)                  *)
(*   - the subscription scheduler (src/app/services/subscription.py)      *)
(*   - the reconciliation handler (src/app/services/subscription.py)      *)
(*   - the download queue         (src/app/services/download.py)          *)
(*   - the filesystem watch       (src/app/services/watch.py)             *)
(* The specifications SpecBus, SpecTable, SpecSched, SpecCron, SpecRec,    *)
(* SpecDl and SpecWatch share the variables; each moves those of its part  *)
(* and leaves the rest.                                                    *)
(***************************************************************************)
EXTENDS Integers, Sequences, FiniteSets, TLC

VARIABLES
    \* ---- event bus (EventManager) ----
    handlers,   \* self.handlers: kind -> list of (handler, priority); a kind
                \* that is no key of the dict has the empty list
    events,     \* self.events: the asyncio.Queue of published events
    running,    \* self.running
    loop,       \* position of the run() coroutine and of its handle_event task
    disp,       \* history of the dispatch in progress
    registered, \* history: the live registrations of each kind, oldest first
    nRegs,      \* history: number of add_handler calls so far
    nEvents,    \* history: number of add_event calls so far
    \* ---- scheduler and reconciliation ----
    repo,       \* the repository rows: id -> [status, cron]
    jobs,       \* the module-level jobs dict: id -> the Cron object held
    orphans,    \* id -> number of running Cron objects jobs no longer holds
    startCall,  \* the start() coroutine
    upd,        \* the update_subscription() coroutines, one per caller
    rec,        \* the handle_subscription_event coroutine
    stopped,    \* history: stop() has returned, and neither start() nor
                \* update_subscription() has been called since
    \* ---- download queue (DownloadService) ----
    dlQueue,    \* self._queue
    dlRunning,  \* self.running
    dlLoop,     \* position of DownloadService.run()
    retry,      \* DownloadEvent.retry of each request
    fileType,   \* DownloadEvent.url.type of each request
    submits,    \* history: number of submit() calls made for each request
    enqueued,   \* history: number of times each request was put in the queue
    handled,    \* history: number of times handle_download_event was invoked
                \* with each request and returned
    \* ---- filesystem watch (WatchService) ----
    wPc,        \* position of the start() coroutine
    stopEvent,  \* self.stop_event.is_set()
    configured, \* the change_types argument the service was constructed with
    seen,       \* history: the notifications the loop body has taken up
    stopAt,     \* history: where start() stood when the stop signal was set
    nStarts,    \* history: number of start() calls so far
    \* ---- what the Jobs were given, and what the repository and the
    \*      season folders hold by now ----
    torrents,   \* id -> the episodes that have a torrent id in the row
    folder,     \* id -> the episodes found in the season folder
    jobArgs,    \* id -> the torrent-id keys of the SubscriptionMetadata copy
                \* the Job under that id was built with
    \* ---- calls of the bus with arguments of any type ----
    last,       \* history: the last add_handler or add_event call: what it
                \* was given and whether it raised
    \* ---- DownloadService.download ----
    downloads   \* history: request -> how often download() was called with
                \* it and how often that called M3u8Downloader.download

busVars   == <<handlers, events, running, loop, disp, registered, nRegs, nEvents>>
schedVars == <<repo, jobs, orphans, startCall, upd, rec, stopped>>
dlVars    == <<dlQueue, dlRunning, dlLoop, retry, fileType, submits, enqueued, handled>>
watchVars == <<wPc, stopEvent, configured, seen, stopAt, nStarts>>
snapVars  == <<torrents, folder, jobArgs>>
apiVars   == <<last>>
callVars  == <<downloads>>
vars      == <<handlers, events, running, loop, disp, registered, nRegs, nEvents,
               repo, jobs, orphans, startCall, upd, rec, stopped,
               dlQueue, dlRunning, dlLoop, retry, fileType, submits, enqueued, handled,
               wPc, stopEvent, configured, seen, stopAt, nStarts,
               torrents, folder, jobArgs, last, downloads>>

----------------------------------------------------------------------------
(* Bounds of the model *)

MaxRegs == 2        \* add_handler calls over a run
MaxEvents == 2      \* add_event calls over a run of the bus
MaxBatch == 2       \* changes in one batch yielded by awatch
MaxSeen == 3        \* notifications taken up by the watch loop over a run
MaxStarts == 2      \* WatchService.start() calls over a run

(* Event kinds (classes derived from Event) and handler functions *)
Kinds == {"SubscriptionEvent", "DownloadEvent"}
\* the kinds SpecBus registers handlers for; events of the other kind are
\* published too and find no key in the table
HandledKinds == {"SubscriptionEvent"}
\* the base class Event, which can be published and registered for as well
BaseKind == "Event"
AllKinds == Kinds \cup {BaseKind}
HandlerIds == {"h1", "h2"}
Priorities == {0, 1}
\* the annotation of the one parameter of each handler function:
\* handle_subscription_event(event: SubscriptionEvent) and
\* handle_download_event(event: DownloadEvent)
Accepts == [h \in HandlerIds |-> IF h = "h1" THEN "SubscriptionEvent" ELSE "DownloadEvent"]
Outcomes == {"ok", "raise"}

NoEvent == [kind |-> "none", sub |-> "none", episode |-> 0, retry |-> 0]

\* the constructors of the Event subclasses: a kind and its payload; a
\* DownloadEvent starts with retry = 0
NewEvent(k, s, e) == [kind |-> k, sub |-> s, episode |-> e, retry |-> 0]

----------------------------------------------------------------------------
(* Event bus: pure parts *)

\* s[1..i-1] \o <<e>> \o s[i..]
InsertAt(s, i, e) == SubSeq(s, 1, i - 1) \o <<e>> \o SubSeq(s, i, Len(s))

\* e goes behind every entry whose priority is not larger: a stable insertion
InsertStable(e, s) ==
    LET before == {i \in 1..Len(s) : s[i].prio <= e.prio}
    IN  InsertAt(s, Cardinality(before) + 1, e)

\* e goes in front of the entries of equal priority: ties are reversed
InsertUnstable(e, s) ==
    LET before == {i \in 1..Len(s) : s[i].prio < e.prio}
    IN  InsertAt(s, Cardinality(before) + 1, e)

RECURSIVE SortByPriorityUnstable(_)
SortByPriorityUnstable(s) ==
    IF s = <<>> THEN <<>>
    ELSE InsertUnstable(s[Len(s)], SortByPriorityUnstable(SubSeq(s, 1, Len(s) - 1)))

\* list.sort(key=lambda h: h[1]): ascending priority, stable
RECURSIVE SortByPriority(_)
SortByPriority(s) ==
    IF s = <<>> THEN <<>>
    ELSE InsertStable(s[Len(s)], SortByPriority(SubSeq(s, 1, Len(s) - 1)))

\* the keys of self.handlers: add_handler creates a key with its first entry
\* and remove_handler deletes it with its last, so no key has an empty list
HasKey(tbl, k) == tbl[k] # << >>

\* the lookup by isinstance: the handlers of the base class come after those
\* of the event's own class
HandlersOfWithBase(tbl, k) ==
    IF k # BaseKind /\ BaseKind \in DOMAIN tbl THEN tbl[k] \o tbl[BaseKind] ELSE tbl[k]

\* self.handlers[event.__class__]: the list under the event's own class
HandlersOf(tbl, k) == tbl[k]

\* the table after add_handler(k, h, p)
AddToTable(tbl, k, h, p) ==
    [tbl EXCEPT ![k] = SortByPriority(Append(@, [h |-> h, prio |-> p]))]

\* the list without its entry at position i
PopAt(s, i) == SubSeq(s, 1, i - 1) \o SubSeq(s, i + 1, Len(s))

\* every entry of h goes
RemoveAllFromTable(tbl, k, h) ==
    [tbl EXCEPT ![k] = SelectSeq(@, LAMBDA e : e.h # h)]

\* the table after remove_handler(k, h): the first entry of h goes, and the
\* key goes when its list is left empty
RemoveFromTable(tbl, k, h) ==
    LET hits == {i \in 1..Len(tbl[k]) : tbl[k][i].h = h}
    IN  IF hits = {} THEN tbl
        ELSE [tbl EXCEPT ![k] = PopAt(@, CHOOSE i \in hits : \A j \in hits : i <= j)]

\* the list the for-loop of handle_event iterates: the list object it started
\* on, which is left empty for good once remove_handler has deleted its key
IterList == IF loop.detached THEN <<>> ELSE HandlersOf(handlers, loop.cur.kind)

\* where the for-loop of handle_event stands after a handler returned or
\* raised: the except clause swallows the exception and the loop goes on
AfterHandlerAbort(outcome, i) ==
    IF outcome = "raise" THEN [pc |-> "check", idx |-> 0]
    ELSE [pc |-> "iter", idx |-> i + 1]

AfterHandler(outcome, i) == [pc |-> "iter", idx |-> i + 1]

\* a handler of an event of kind k has been called and has not returned
\* self.events.put(event) at the head of the queue instead of its tail
QueuePutFront(q, e) == <<e>> \o q

\* `await self.events.put(event)` on the unbounded asyncio.Queue: the event
\* joins the tail at once
QueuePut(q, e) == Append(q, e)

\* history: the event e marked as the n-th one published on the bus
Stamp(e, n) ==
    [kind |-> e.kind, sub |-> e.sub, episode |-> e.episode, retry |-> e.retry, seq |-> n]

Dispatching(k) == loop.pc \in {"iter"} /\ loop.cur.kind = k

\* the record of `await handler(event)` being entered for the entry e
Invoke(e) == [h |-> e.h, prio |-> e.prio, raised |-> FALSE]

----------------------------------------------------------------------------
(* Event bus: initial state and actions *)

IdleLoop == [pc |-> "init", cur |-> NoEvent, idx |-> 0, detached |-> FALSE]
\* afterStop (history): stop() had been called when run() took the event
NoDisp == [ev |-> NoEvent, snapshot |-> <<>>, invoked |-> <<>>, touched |-> FALSE,
           prevRaised |-> FALSE, afterStop |-> FALSE]

\* history: a handler raised during the dispatch that d records (or, when d
\* records none, during the one before)
RaisedIn(d) ==
    IF d.ev = NoEvent THEN d.prevRaised
    ELSE \E i \in 1..Len(d.invoked) : d.invoked[i].raised

\* the registration history after remove_handler popped entry e of kind k
Unregister(reg, k, e) ==
    LET hits == {i \in 1..Len(reg[k]) : reg[k][i] = e}
    IN  [reg EXCEPT ![k] = PopAt(@, CHOOSE i \in hits : \A j \in hits : i <= j)]

\* the entry remove_handler(k, h) pops: the first one of h in the list
Popped(tbl, k, h) ==
    tbl[k][CHOOSE i \in 1..Len(tbl[k]) :
              /\ tbl[k][i].h = h
              /\ \A j \in 1..(i - 1) : tbl[k][j].h # h]

InitBus ==
    /\ handlers = [k \in Kinds |-> << >>]
    /\ events = << >>
    /\ running = FALSE
    /\ loop = [pc |-> "init", cur |-> NoEvent, idx |-> 0, detached |-> FALSE]
    /\ disp = NoDisp
    /\ registered = [k \in Kinds |-> << >>]
    /\ nRegs = 0
    /\ nEvents = 0

\* add_event(event)
AddEvent(k) ==
    /\ nEvents < MaxEvents
    /\ nEvents' = nEvents + 1
    /\ events' = QueuePut(events, Stamp(NewEvent(k, "none", 0), nEvents + 1))
    /\ UNCHANGED <<handlers, running, loop, disp, registered, nRegs>>
    /\ UNCHANGED <<schedVars, dlVars, watchVars, snapVars, apiVars, callVars>>

\* add_handler(event_type, handler, priority)
AddHandler(k, h, p) ==
    /\ nRegs < MaxRegs
    /\ nRegs' = nRegs + 1
    /\ handlers' = AddToTable(handlers, k, h, p)
    /\ registered' = [registered EXCEPT ![k] = Append(@, [h |-> h, prio |-> p])]
    /\ disp' = IF Dispatching(k) THEN [disp EXCEPT !.touched = TRUE] ELSE disp
    /\ UNCHANGED <<events, running, loop, nEvents>>
    /\ UNCHANGED <<schedVars, dlVars, watchVars, snapVars, apiVars, callVars>>

\* remove_handler(event_type, handler), for a handler that is registered
RemoveHandler(k, h) ==
    /\ \E i \in 1..Len(handlers[k]) : handlers[k][i].h = h
    /\ handlers' = RemoveFromTable(handlers, k, h)
    /\ registered' = Unregister(registered, k, Popped(handlers, k, h))
    /\ disp' = IF Dispatching(k) THEN [disp EXCEPT !.touched = TRUE] ELSE disp
    /\ loop' = IF Dispatching(k) /\ ~HasKey(handlers', k)
               THEN [loop EXCEPT !.detached = TRUE] ELSE loop
    /\ UNCHANGED <<events, running, nRegs, nEvents>>
    /\ UNCHANGED <<schedVars, dlVars, watchVars, snapVars, apiVars, callVars>>

\* run(): self.running = True, then the while loop
Run ==
    /\ loop.pc = "init"
    /\ running' = TRUE
    /\ loop' = [loop EXCEPT !.pc = "check"]
    /\ UNCHANGED <<handlers, events, disp, registered, nRegs, nEvents>>
    /\ UNCHANGED <<schedVars, dlVars, watchVars, snapVars, apiVars, callVars>>

\* stop()
Stop ==
    /\ running
    /\ running' = FALSE
    /\ UNCHANGED <<handlers, events, loop, disp, registered, nRegs, nEvents>>
    /\ UNCHANGED <<schedVars, dlVars, watchVars, snapVars, apiVars, callVars>>

\* events.get() returning the head of the queue, and create_task(handle_event)
TakeEvent ==
    /\ events' = Tail(events)
    /\ loop' = [pc |-> "task", cur |-> Head(events), idx |-> 0, detached |-> FALSE]
    /\ disp' = [NoDisp EXCEPT !.prevRaised = RaisedIn(disp), !.afterStop = ~running]

\* `while self.running:` then `await self.events.get()`: the loop ends, takes
\* the head of the queue, or suspends on the empty queue
LoopCheck ==
    /\ loop.pc = "check"
    /\ IF ~running
       THEN /\ loop' = [IdleLoop EXCEPT !.pc = "exited"]
            /\ UNCHANGED events /\ disp' = NoDisp
       ELSE IF events # << >>
            THEN TakeEvent
            ELSE /\ loop' = [IdleLoop EXCEPT !.pc = "wait"]
                 /\ UNCHANGED events
                 /\ disp' = [NoDisp EXCEPT !.prevRaised = RaisedIn(disp)]
    /\ UNCHANGED <<handlers, running, registered, nRegs, nEvents>>
    /\ UNCHANGED <<schedVars, dlVars, watchVars, snapVars, apiVars, callVars>>

\* the suspended events.get() is woken by a put
LoopWake ==
    /\ loop.pc = "wait"
    /\ events # << >>
    /\ TakeEvent
    /\ UNCHANGED <<handlers, running, registered, nRegs, nEvents>>
    /\ UNCHANGED <<schedVars, dlVars, watchVars, snapVars, apiVars, callVars>>

\* handle_event starts: `if event.__class__ in self.handlers`, and with the
\* key present the for-loop calls the first handler of the list at once
TaskBegin ==
    /\ loop.pc = "task"
    /\ LET tbl == HandlersOf(handlers, loop.cur.kind)
           known == tbl # << >>
       IN  /\ loop' = [loop EXCEPT !.pc = IF known THEN "iter" ELSE "check",
                                   !.idx = IF known THEN 1 ELSE 0]
           /\ disp' = [ev |-> loop.cur,
                       snapshot |-> IF known THEN tbl ELSE <<>>,
                       invoked |-> IF known THEN <<Invoke(tbl[1])>> ELSE <<>>,
                       touched |-> FALSE,
                       prevRaised |-> disp.prevRaised, afterStop |-> disp.afterStop]
    /\ UNCHANGED <<handlers, events, running, registered, nRegs, nEvents>>
    /\ UNCHANGED <<schedVars, dlVars, watchVars, snapVars, apiVars, callVars>>

\* the handler under way returns or raises, and the for-loop goes on without
\* suspending: the list iterator moves to the next index of the list as it
\* is by now and calls the handler it finds there, or it is exhausted and
\* handle_event returns to run()
IterStep(outcome) ==
    /\ loop.pc = "iter"
    /\ LET nxt == AfterHandler(outcome, loop.idx)
           more == nxt.pc = "iter" /\ nxt.idx <= Len(IterList)
           done == [disp.invoked EXCEPT ![Len(disp.invoked)].raised = (outcome = "raise")]
       IN  /\ disp' = [disp EXCEPT !.invoked =
                          IF more THEN Append(done, Invoke(IterList[nxt.idx])) ELSE done]
           /\ loop' = [loop EXCEPT !.pc = IF more THEN "iter" ELSE "check",
                                   !.idx = IF more THEN nxt.idx ELSE 0]
    /\ UNCHANGED <<handlers, events, running, registered, nRegs, nEvents>>
    /\ UNCHANGED <<schedVars, dlVars, watchVars, snapVars, apiVars, callVars>>

\* the table once the service modules are imported: @register has entered
\* handle_subscription_event and handle_download_event, each under the kind
\* of its annotation with priority 0
InitTable ==
    /\ handlers = [k \in Kinds |->
                      <<[h |-> CHOOSE h \in HandlerIds : Accepts[h] = k, prio |-> 0]>>]
    /\ registered = handlers
    /\ events = << >>
    /\ running = FALSE
    /\ loop = IdleLoop
    /\ disp = NoDisp
    /\ nRegs = 0
    /\ nEvents = 0

\* SpecTable: add_handler and remove_handler calls on the table of the
\* imported application, the bus not running
NextTable ==
    \/ \E k \in Kinds, h \in HandlerIds, p \in Priorities : AddHandler(k, h, p)
    \/ \E k \in Kinds, h \in HandlerIds : RemoveHandler(k, h)

\* what add_handler and add_event may be given: the classes of the bus and
\* a class that is not derived from Event; functions that are async or not
\* and take some number of parameters (which function it is plays no part
\* in the checks, so one name stands for all)
MaxParams == 2
ArgTypes == AllKinds \cup {"str"}
Callables == [h : {"h1"}, async : BOOLEAN, params : 0..MaxParams]
NoCallable == [h |-> "none", async |-> FALSE, params |-> 0]
NoCall == [op |-> "none", type |-> "none", fn |-> NoCallable, raised |-> "none"]

\* issubclass(event_type, Event), and isinstance(event, Event) for an object
\* of class t
IsEventClass(t) == t \in AllKinds

\* the check of the number of parameters is left out
HandlerTypeErrorAnyArity(t, f) == ~IsEventClass(t) \/ ~f.async

\* the three checks of add_handler, each of which raises TypeError
HandlerTypeError(t, f) == ~IsEventClass(t) \/ ~f.async \/ f.params # 1

\* the check of add_event
EventTypeError(t) == ~IsEventClass(t)

\* add_handler(event_type, handler, priority) with any arguments
AddHandlerCall(t, f, p) ==
    /\ IF HandlerTypeError(t, f)
       THEN /\ last' = [op |-> "add_handler", type |-> t, fn |-> f, raised |-> "TypeError"]
            /\ UNCHANGED <<handlers, registered, nRegs>>
       ELSE /\ nRegs < MaxRegs
            /\ nRegs' = nRegs + 1
            /\ handlers' = AddToTable(handlers, t, f.h, p)
            /\ registered' = [registered EXCEPT ![t] = Append(@, [h |-> f.h, prio |-> p])]
            /\ last' = [op |-> "add_handler", type |-> t, fn |-> f, raised |-> "none"]
    /\ UNCHANGED <<events, running, loop, disp, nEvents>>
    /\ UNCHANGED <<schedVars, dlVars, watchVars, snapVars, callVars>>

\* add_event(event) with an object of class t
AddEventCall(t) ==
    /\ IF EventTypeError(t)
       THEN /\ last' = [op |-> "add_event", type |-> t, fn |-> NoCallable, raised |-> "TypeError"]
            /\ UNCHANGED <<events, nEvents>>
       ELSE /\ nEvents < MaxEvents
            /\ nEvents' = nEvents + 1
            /\ events' = QueuePut(events, Stamp(NewEvent(t, "none", 0), nEvents + 1))
            /\ last' = [op |-> "add_event", type |-> t, fn |-> NoCallable, raised |-> "none"]
    /\ UNCHANGED <<handlers, running, loop, disp, registered, nRegs>>
    /\ UNCHANGED <<schedVars, dlVars, watchVars, snapVars, callVars>>

\* SpecApi: add_handler and add_event called with arguments of any type on
\* a bus that is not running
InitApi ==
    /\ handlers = [k \in AllKinds |-> << >>]
    /\ events = << >>
    /\ running = FALSE
    /\ loop = IdleLoop
    /\ disp = NoDisp
    /\ registered = [k \in AllKinds |-> << >>]
    /\ nRegs = 0
    /\ nEvents = 0
    /\ last = NoCall

NextApi ==
    \/ \E t \in ArgTypes, f \in Callables : AddHandlerCall(t, f, 0)
    \/ \E t \in ArgTypes : AddEventCall(t)

\* SpecKinds: events of the base class and of its subclasses are published
\* and dispatched while handlers are registered for any of the three classes
InitKinds ==
    /\ handlers = [k \in AllKinds |-> << >>]
    /\ events = << >>
    /\ running = FALSE
    /\ loop = IdleLoop
    /\ disp = NoDisp
    /\ registered = [k \in AllKinds |-> << >>]
    /\ nRegs = 0
    /\ nEvents = 0

NextKinds ==
    \/ \E k \in AllKinds : AddEvent(k)
    \/ \E k \in AllKinds, h \in HandlerIds : AddHandler(k, h, 0)
    \/ Run
    \/ LoopCheck
    \/ LoopWake
    \/ TaskBegin
    \/ \E o \in Outcomes : IterStep(o)

NextBus ==
    \/ \E k \in Kinds : AddEvent(k)
    \/ \E k \in HandledKinds, h \in HandlerIds, p \in Priorities : AddHandler(k, h, p)
    \/ \E k \in HandledKinds, h \in HandlerIds : RemoveHandler(k, h)
    \/ Run
    \/ Stop
    \/ LoopCheck
    \/ LoopWake
    \/ TaskBegin
    \/ \E o \in Outcomes : IterStep(o)

----------------------------------------------------------------------------
(* Scheduler: pure parts *)

MaxOrphans == 2     \* running Cron objects of one id that jobs no longer holds
MaxQueue == 1       \* trigger events the Jobs may leave waiting in the bus queue

SubIds == {"s1", "s2"}
Statuses == {"UPDATING", "COMPLETED", "PACKED"}
CronExprs == {"0 * * * *", "bad"}
\* the expressions a row may be given later
EditedCronExprs == CronExprs \cup {"30 * * * *"}
Episodes == {1, 2}
EpisodeCounts == {0, 1, 2}
Callers == {"api", "rec"}

\* jobs[id]: no key, or the Cron object held: running ("live") or stopped
NoJob == [state |-> "none", cron |-> "none"]

\* crontab() accepts the expression; a malformed one makes the call raise,
\* which is what the except clause of update_subscription is there for
ValidCron(c) == c # "bad"

\* the old Job is left running
StopExistingSkipped(js, s) == js

\* `if id in jobs: jobs[id].stop()`
StopExisting(js, s) ==
    IF js[s].state # "none" THEN [js EXCEPT ![s].state = "stopped"] ELSE js

\* jobs[id] = crontab(expression, ..., start=True), for a valid expression:
\* a new running Cron object takes the key; the object the key held goes on
\* running, out of reach, unless it was stopped
Crontab(js, orph, s, cron) ==
    [jobs    |-> [js EXCEPT ![s] = [state |-> "live", cron |-> cron]],
     orphans |-> [orph EXCEPT ![s] = IF js[s].state = "live" THEN @ + 1 ELSE @]]

\* one turn of the for-loop of start(): stop the old Job, build the new one;
\* a crontab() that raises ends start() there
InstallOne(js, orph, sub) ==
    LET js1 == StopExisting(js, sub.id)
    IN  IF ValidCron(sub.cron)
        THEN LET r == Crontab(js1, orph, sub.id, sub.cron)
             IN  [jobs |-> r.jobs, orphans |-> r.orphans, raised |-> FALSE]
        ELSE [jobs |-> js1, orphans |-> orph, raised |-> TRUE]

\* the for-loop of start() over the rows get_by_status returned
RECURSIVE InstallAll(_, _, _)
InstallAll(list, js, orph) ==
    IF list = << >> THEN [jobs |-> js, orphans |-> orph, raised |-> FALSE]
    ELSE LET r == InstallOne(js, orph, Head(list))
         IN  IF r.raised THEN r ELSE InstallAll(Tail(list), r.jobs, r.orphans)

\* the non-UPDATING branch keeps the Job
RetireSkipped(js, orph, s) == [jobs |-> js, orphans |-> orph]

\* the non-UPDATING branch deletes the key and leaves the Cron object running
RetireWithoutStop(js, orph, s) ==
    [jobs |-> [js EXCEPT ![s] = NoJob],
     orphans |-> [orph EXCEPT ![s] = IF js[s].state = "live" THEN @ + 1 ELSE @]]

\* update_subscription, status not UPDATING: `jobs[id].stop(); del jobs[id]`
Retire(js, orph, s) ==
    [jobs |-> [js EXCEPT ![s] = NoJob], orphans |-> orph]

\* a Job that is running under the id is kept as it is
ReinstallIfAbsent(js, orph, s, cron) ==
    IF js[s].state = "live" \/ ~ValidCron(cron)
    THEN [jobs |-> js, orphans |-> orph, built |-> FALSE]
    ELSE [jobs |-> [js EXCEPT ![s] = [state |-> "live", cron |-> cron]],
          orphans |-> orph, built |-> TRUE]

\* update_subscription, status UPDATING: stop the old Job, then crontab()
\* inside try/except: a failure is logged and jobs keeps what it held
Reinstall(js, orph, s, cron) ==
    LET js1 == StopExisting(js, s)
    IN  IF ValidCron(cron)
        THEN LET r == Crontab(js1, orph, s, cron)
             IN  [jobs |-> r.jobs, orphans |-> r.orphans, built |-> TRUE]
        ELSE [jobs |-> js1, orphans |-> orph, built |-> FALSE]

\* what get_by_id gives to update_subscription when the repository has no
\* row of the id: None
Absent == "absent"

\* a missing row is treated like one that is no longer UPDATING
OnMissingRowRetire(js, orph, s) ==
    LET r == Retire(js, orph, s)
    IN  [jobs |-> r.jobs, orphans |-> r.orphans, built |-> FALSE]

\* `if not subscription: logger.warning(...); return`
OnMissingRow(js, orph, s) == [jobs |-> js, orphans |-> orph, built |-> FALSE]

\* the body of update_subscription after the row was read
ApplyUpdate(js, orph, s, status, cron) ==
    IF status = Absent
    THEN OnMissingRow(js, orph, s)
    ELSE IF status # "UPDATING"
    THEN LET r == Retire(js, orph, s)
         IN  [jobs |-> r.jobs, orphans |-> r.orphans, built |-> FALSE]
    ELSE Reinstall(js, orph, s, cron)

\* stop() stops every Job and leaves the entries in place
StopAllKeepEntries(js) ==
    [s \in SubIds |-> IF js[s].state = "none" THEN js[s]
                      ELSE [js[s] EXCEPT !.state = "stopped"]]

\* stop(): every Job is stopped and deleted
StopAll(js) == [s \in SubIds |-> NoJob]

\* the Cron objects of id s that are running
LiveCount(js, orph, s) == (IF js[s].state = "live" THEN 1 ELSE 0) + orph[s]

\* the sequences that list the members of S once each
Orderings(S) ==
    {q \in UNION {[1..n -> S] : n \in {Cardinality(S)}} :
        \A i, j \in 1..Cardinality(S) : i # j => q[i] # q[j]}

\* the completion test compares the sets instead of the counts
CompleteBySets(local, count, tkeys) ==
    Cardinality(local) = count /\ local = tkeys

\* len(local_episodes) == episode_count == len(torrent_ids)
Complete(local, count, tkeys) ==
    Cardinality(local) = count /\ count = Cardinality(tkeys)

\* the branch that logs the warning returns
AfterWarningReturn(mismatch, nxt) == IF mismatch THEN "done" ELSE nxt

\* `elif local_episodes != set(torrent_ids.keys()): logger.warning(...)`: the
\* branch has no return, and the handler goes on to where it would go anyway
AfterWarning(mismatch, nxt) == nxt

\* the episodes to download are taken against the torrent ids
MissingByTorrents(latest, local, tkeys) == latest \ tkeys

\* download_episodes = set(latest_episodes.keys()) - local_episodes
Missing(latest, local, tkeys) == latest \ local

----------------------------------------------------------------------------
(* Scheduler: initial state and actions *)

\* replaced, had, built: history of what the call found and did; calls,
\* failed, fetched, published: history of the platform calls made, whether
\* one failed, the episodes whose link was fetched, the events published;
\* warned: the warning of the torrent ids differing from the folder was logged
IdleStart == [pc |-> "idle", list |-> << >>, replaced |-> FALSE]
IdleUpd == [pc |-> "idle", sub |-> "none", status |-> "none", cron |-> "none",
            had |-> FALSE, built |-> FALSE]
IdleRec == [pc |-> "idle", sub |-> "none", local |-> {}, tkeys |-> {}, count |-> 0,
            latest |-> {}, todo |-> {}, published |-> << >>, calls |-> 0,
            failed |-> FALSE, fetched |-> {}, path |-> "none", warned |-> FALSE]

\* the rows as create_from_metadata leaves them: status UPDATING (the column
\* default), any schedule expression; nothing is scheduled yet
InitSched ==
    /\ repo \in [SubIds -> [status : {"UPDATING"}, cron : CronExprs]]
    /\ jobs = [s \in SubIds |-> NoJob]
    /\ orphans = [s \in SubIds |-> 0]
    /\ startCall = IdleStart
    /\ upd = [c \in Callers |-> IdleUpd]
    /\ rec = IdleRec
    /\ stopped = FALSE

\* start(): get_by_status(UPDATING) returns the rows, in some order
StartRead ==
    /\ startCall.pc = "idle"
    /\ \E q \in Orderings({s \in SubIds : repo[s].status = "UPDATING"}) :
          startCall' = [pc |-> "read", replaced |-> FALSE,
                        list |-> [i \in DOMAIN q |-> [id |-> q[i], cron |-> repo[q[i]].cron]]]
    /\ UNCHANGED <<repo, jobs, orphans, upd, rec>>
    /\ stopped' = FALSE
    /\ UNCHANGED <<busVars, dlVars, watchVars, snapVars, apiVars, callVars>>

\* start(): the for-loop, which has no await in it
StartInstall ==
    /\ startCall.pc = "read"
    /\ \A s \in SubIds : orphans[s] < MaxOrphans
    /\ LET r == InstallAll(startCall.list, jobs, orphans)
       IN  /\ jobs' = r.jobs
           /\ orphans' = r.orphans
           /\ startCall' = [pc |-> IF r.raised THEN "raised" ELSE "returned",
                            list |-> << >>,
                            replaced |-> \E i \in DOMAIN startCall.list :
                                            jobs[startCall.list[i].id].state = "live"]
    /\ UNCHANGED <<repo, upd, rec>>
    /\ UNCHANGED stopped
    /\ UNCHANGED <<busVars, dlVars, watchVars, snapVars, apiVars, callVars>>

\* the caller of start() takes its result
StartDone ==
    /\ startCall.pc \in {"returned", "raised"}
    /\ startCall' = IdleStart
    /\ UNCHANGED <<repo, jobs, orphans, upd, rec>>
    /\ UNCHANGED stopped
    /\ UNCHANGED <<busVars, dlVars, watchVars, snapVars, apiVars, callVars>>

\* stop()
SchedStop ==
    /\ jobs' = StopAll(jobs)
    /\ UNCHANGED <<repo, orphans, startCall, upd, rec>>
    /\ stopped' = TRUE
    /\ UNCHANGED <<busVars, dlVars, watchVars, snapVars, apiVars, callVars>>

\* update_subscription(id): session_scope() and get_by_id(id)
UpdRead(c, s) ==
    /\ upd[c].pc = "idle"
    /\ IF c = "rec" THEN rec.pc = "update" /\ s = rec.sub ELSE TRUE
    /\ upd' = [upd EXCEPT ![c] = [IdleUpd EXCEPT !.pc = "read", !.sub = s,
                                     !.status = repo[s].status, !.cron = repo[s].cron]]
    /\ rec' = IF c = "rec" THEN [rec EXCEPT !.pc = "updating"] ELSE rec
    /\ UNCHANGED <<repo, jobs, orphans, startCall>>
    /\ stopped' = FALSE
    /\ UNCHANGED <<busVars, dlVars, watchVars, snapVars, apiVars, callVars>>

\* update_subscription(id): the rest of the body, which has no await in it
UpdApply(c) ==
    /\ upd[c].pc = "read"
    /\ \A s \in SubIds : orphans[s] < MaxOrphans
    /\ LET u == upd[c]
           r == ApplyUpdate(jobs, orphans, u.sub, u.status, u.cron)
       IN  /\ jobs' = r.jobs
           /\ orphans' = r.orphans
           /\ upd' = [upd EXCEPT ![c].pc = "applied", ![c].cron = "none",
                                 ![c].had = (jobs[u.sub] # NoJob),
                                 ![c].built = r.built]
    /\ UNCHANGED <<repo, startCall, rec>>
    /\ UNCHANGED stopped
    /\ UNCHANGED <<busVars, dlVars, watchVars, snapVars, apiVars, callVars>>

\* update_subscription(id): the session is committed and the call returns
UpdReturn(c) ==
    /\ upd[c].pc = "applied"
    /\ upd' = [upd EXCEPT ![c] = IdleUpd]
    /\ rec' = IF c = "rec" THEN [rec EXCEPT !.pc = "done"] ELSE rec
    /\ UNCHANGED <<repo, jobs, orphans, startCall>>
    /\ UNCHANGED stopped
    /\ UNCHANGED <<busVars, dlVars, watchVars, snapVars, apiVars, callVars>>

\* a running Cron object of id s fires: handle_subscription_schedule
\* publishes a SubscriptionEvent
JobFire(s) ==
    /\ LiveCount(jobs, orphans, s) > 0
    /\ Len(events) < MaxQueue
    /\ events' = Append(events, NewEvent("SubscriptionEvent", s, 0))
    /\ UNCHANGED <<handlers, running, loop, disp, registered, nRegs, nEvents>>
    /\ UNCHANGED <<schedVars, dlVars, watchVars, snapVars, apiVars, callVars>>

\* the external packer marks a completed subscription PACKED
ExternalPack(s) ==
    /\ repo[s].status = "COMPLETED"
    /\ repo' = [repo EXCEPT ![s].status = "PACKED"]
    /\ UNCHANGED <<jobs, orphans, startCall, upd, rec>>
    /\ UNCHANGED stopped
    /\ UNCHANGED <<busVars, dlVars, watchVars, snapVars, apiVars, callVars>>

\* subscription_repository.delete(id): the row of the subscription goes
ExternalDelete(s) ==
    /\ repo[s].status # Absent
    /\ repo' = [repo EXCEPT ![s] = [status |-> Absent, cron |-> "none"]]
    /\ UNCHANGED <<jobs, orphans, startCall, upd, rec>>
    /\ UNCHANGED stopped
    /\ UNCHANGED <<busVars, dlVars, watchVars, snapVars, apiVars, callVars>>

\* the subscription information changes (the case update_subscription is
\* there for): the row gets another schedule expression
ExternalEditCron(s, c) ==
    /\ repo[s].cron # c
    /\ repo' = [repo EXCEPT ![s].cron = c]
    /\ UNCHANGED <<jobs, orphans, startCall, upd, rec>>
    /\ UNCHANGED stopped
    /\ UNCHANGED <<busVars, dlVars, watchVars, snapVars, apiVars, callVars>>

\* the bus hands the next SubscriptionEvent to handle_subscription_event,
\* which lists the season folder, makes the completion test and looks the
\* platform up. Its inputs: the episodes found in the folder, the torrent ids
\* and the episode count of event.subscription, whether the platform is known
RecStart(local, tkeys, count, known) ==
    /\ rec.pc = "idle"
    /\ events # << >>
    /\ Head(events).kind = "SubscriptionEvent"
    /\ events' = Tail(events)
    /\ rec' = [IdleRec EXCEPT
                  !.sub = Head(events).sub, !.local = local, !.tkeys = tkeys,
                  !.count = count,
                  !.warned = ~Complete(local, count, tkeys) /\ local # tkeys,
                  !.pc = IF Complete(local, count, tkeys) THEN "write"
                         ELSE AfterWarning(local # tkeys,
                                           IF known THEN "list" ELSE "done"),
                  !.path = IF Complete(local, count, tkeys) THEN "complete"
                           ELSE IF known THEN "remote" ELSE "unknown_platform"]
    /\ UNCHANGED <<handlers, running, loop, disp, registered, nRegs, nEvents>>
    /\ UNCHANGED <<repo, jobs, orphans, startCall, upd>>
    /\ UNCHANGED stopped
    /\ UNCHANGED <<dlVars, watchVars, snapVars, apiVars, callVars>>

\* update_status(id, COMPLETED)
RecWrite ==
    /\ rec.pc = "write"
    /\ repo' = [repo EXCEPT ![rec.sub].status = "COMPLETED"]
    /\ rec' = [rec EXCEPT !.pc = "update", !.tkeys = {}, !.count = 0]
    /\ UNCHANGED <<jobs, orphans, startCall, upd>>
    /\ UNCHANGED stopped
    /\ UNCHANGED <<busVars, dlVars, watchVars, snapVars, apiVars, callVars>>

\* the exception of get_episodes_list leaves the handler
OnListFailureRaise(r) ==
    [r EXCEPT !.pc = "raised", !.calls = @ + 1, !.failed = TRUE,
              !.path = "list_failed", !.tkeys = {}, !.count = 0]

\* get_episodes_list raised: `except Exception`, an error is logged and the
\* handler returns
OnListFailure(r) ==
    [r EXCEPT !.pc = "done", !.calls = @ + 1, !.failed = TRUE,
              !.path = "list_failed", !.tkeys = {}, !.count = 0]

\* platform.get_episodes_list(url) returns the remote episodes or raises
RecList(ok, latest) ==
    /\ rec.pc = "list"
    /\ LET todo == Missing(latest, rec.local, rec.tkeys)
       IN  rec' = IF ~ok
                  THEN OnListFailure(rec)
                  ELSE [rec EXCEPT !.calls = @ + 1, !.latest = latest, !.todo = todo,
                                   !.tkeys = {}, !.count = 0,
                                   !.pc = IF todo = {} THEN "done" ELSE "links",
                                   !.path = IF todo = {} THEN "nothing" ELSE "links"]
    /\ UNCHANGED <<repo, jobs, orphans, startCall, upd>>
    /\ UNCHANGED stopped
    /\ UNCHANGED <<busVars, dlVars, watchVars, snapVars, apiVars, callVars>>

\* a failed get_download_link ends the for-loop
AfterLinkStopOnFailure(ok, left) ==
    IF ~ok \/ left = {} THEN "done" ELSE "links"

\* where the for-loop over the missing episodes stands after one turn,
\* whether get_download_link returned or raised: `except Exception` logs
\* and the loop goes on with the episodes left
AfterLink(ok, left) == IF left = {} THEN "done" ELSE "links"

\* one turn of the for-loop over the missing episodes: get_download_link
\* returns and a DownloadEvent is published, or it raises and is logged
RecLink(e, ok) ==
    /\ rec.pc = "links"
    /\ e \in rec.todo
    /\ LET ev == NewEvent("DownloadEvent", rec.sub, e)
           left == rec.todo \ {e}
       IN  /\ events' = IF ok THEN Append(events, ev) ELSE events
           /\ rec' = [rec EXCEPT !.todo = left, !.calls = @ + 1,
                                 !.failed = @ \/ ~ok,
                                 !.fetched = IF ok THEN @ \cup {e} ELSE @,
                                 !.published = IF ok THEN Append(@, ev) ELSE @,
                                 !.pc = AfterLink(ok, left)]
    /\ UNCHANGED <<handlers, running, loop, disp, registered, nRegs, nEvents>>
    /\ UNCHANGED <<repo, jobs, orphans, startCall, upd>>
    /\ UNCHANGED stopped
    /\ UNCHANGED <<dlVars, watchVars, snapVars, apiVars, callVars>>

\* handle_subscription_event returns to the bus
RecReturn ==
    /\ rec.pc = "done"
    /\ rec' = IdleRec
    /\ UNCHANGED <<repo, jobs, orphans, startCall, upd>>
    /\ UNCHANGED stopped
    /\ UNCHANGED <<busVars, dlVars, watchVars, snapVars, apiVars, callVars>>

\* the bus hands a DownloadEvent to handle_download_event; nothing of the
\* scheduler changes
DeliverDownload ==
    /\ rec.pc = "idle"
    /\ events # << >>
    /\ Head(events).kind = "DownloadEvent"
    /\ events' = Tail(events)
    /\ UNCHANGED <<handlers, running, loop, disp, registered, nRegs, nEvents>>
    /\ UNCHANGED <<schedVars, dlVars, watchVars, snapVars, apiVars, callVars>>

\* SpecSched: every interleaving of start(), stop(), update_subscription(),
\* the Jobs and the reconciliation handler over two subscriptions. The
\* reconciliation finds the subscription complete, or not complete and its
\* platform not registered; its remote part, which touches nothing of the
\* scheduler, is left to SpecRec
NextSched ==
    \/ StartRead
    \/ StartInstall
    \/ StartDone
    \/ SchedStop
    \/ \E c \in Callers, s \in SubIds : UpdRead(c, s)
    \/ \E c \in Callers : UpdApply(c)
    \/ \E c \in Callers : UpdReturn(c)
    \/ \E s \in SubIds : JobFire(s)
    \/ \E s \in SubIds : ExternalPack(s)
    \/ \E local \in {{1}, Episodes} : RecStart(local, Episodes, 2, FALSE)
    \/ RecWrite
    \/ RecReturn

\* SpecCron: start(), stop() and update_subscription() called by the
\* application while the schedule expressions of the rows change
NextCron ==
    \/ StartRead
    \/ StartInstall
    \/ StartDone
    \/ SchedStop
    \/ \E s \in SubIds : UpdRead("api", s)
    \/ UpdApply("api")
    \/ UpdReturn("api")
    \/ \E s \in SubIds, c \in EditedCronExprs : ExternalEditCron(s, c)

\* SpecGone: start(), stop() and update_subscription() while rows are deleted
\* from the repository
NextGone ==
    \/ StartRead
    \/ StartInstall
    \/ StartDone
    \/ SchedStop
    \/ \E s \in SubIds : UpdRead("api", s)
    \/ UpdApply("api")
    \/ UpdReturn("api")
    \/ \E s \in SubIds : ExternalDelete(s)

\* SpecRec: the reconciliation handler over every folder content, torrent id
\* map, episode count and remote listing, with the Jobs start() installs
NextRec ==
    \/ StartRead
    \/ StartInstall
    \/ StartDone
    \/ \E s \in SubIds : UpdRead("rec", s)
    \/ UpdApply("rec")
    \/ UpdReturn("rec")
    \/ \E s \in SubIds : JobFire(s)
    \/ \E local \in SUBSET Episodes, tkeys \in SUBSET Episodes,
          count \in EpisodeCounts, known \in BOOLEAN :
          RecStart(local, tkeys, count, known)
    \/ RecWrite
    \/ \E ok \in BOOLEAN, latest \in SUBSET Episodes : RecList(ok, latest)
    \/ \E e \in Episodes, ok \in BOOLEAN : RecLink(e, ok)
    \/ RecReturn
    \/ DeliverDownload

\* SubscriptionEvent(subscription): the event a Job publishes carries the
\* SubscriptionMetadata copy the Job was built with, of which the model keeps
\* the id and the keys of torrent_ids
TriggerEvent(s, tids) ==
    [kind |-> "SubscriptionEvent", sub |-> s, episode |-> 0, retry |-> 0, tids |-> tids]

\* the call of add_event is not awaited
OnScheduleUnawaited(q, s, tids) == q

\* handle_subscription_schedule(subscription): add_event is awaited inside
\* try/except, and the put on the unbounded queue does not fail
OnSchedule(q, s, tids) == Append(q, TriggerEvent(s, tids))

\* the ids of the list for which the for-loop of start() built a Job: those
\* up to the first malformed expression
Installed(list) ==
    {list[i].id : i \in {i \in DOMAIN list : \A j \in 1..i : ValidCron(list[j].cron)}}

\* the torrent-id keys the row of id s had in the list start() read
ListedTids(list, s) == (CHOOSE e \in {list[i] : i \in DOMAIN list} : e.id = s).tids

\* fresh subscriptions: no torrent id recorded, the season folders empty
InitSnap ==
    /\ torrents = [s \in SubIds |-> {}]
    /\ folder = [s \in SubIds |-> {}]
    /\ jobArgs = [s \in SubIds |-> {}]

\* start(): get_by_status(UPDATING) returns the rows as they are now
SnapStartRead ==
    /\ startCall.pc = "idle"
    /\ \E q \in Orderings({s \in SubIds : repo[s].status = "UPDATING"}) :
          startCall' = [pc |-> "read", replaced |-> FALSE,
                        list |-> [i \in DOMAIN q |->
                                    [id |-> q[i], cron |-> repo[q[i]].cron,
                                     tids |-> torrents[q[i]]]]]
    /\ UNCHANGED <<repo, jobs, orphans, upd, rec>>
    /\ stopped' = FALSE
    /\ UNCHANGED <<busVars, dlVars, watchVars, snapVars, apiVars, callVars>>

\* start(): the for-loop; each Job is given
\* SubscriptionMetadata.model_validate(subscription), a copy of the row read
SnapStartInstall ==
    /\ startCall.pc = "read"
    /\ \A s \in SubIds : orphans[s] < MaxOrphans
    /\ LET r == InstallAll(startCall.list, jobs, orphans)
       IN  /\ jobs' = r.jobs
           /\ orphans' = r.orphans
           /\ jobArgs' = [s \in SubIds |->
                            IF s \in Installed(startCall.list)
                            THEN ListedTids(startCall.list, s) ELSE jobArgs[s]]
           /\ startCall' = [pc |-> IF r.raised THEN "raised" ELSE "returned",
                            list |-> << >>,
                            replaced |-> \E i \in DOMAIN startCall.list :
                                            jobs[startCall.list[i].id].state = "live"]
    /\ UNCHANGED <<repo, upd, rec>>
    /\ UNCHANGED <<torrents, folder>>
    /\ UNCHANGED stopped
    /\ UNCHANGED <<busVars, dlVars, watchVars, apiVars, callVars>>

\* add_torrent_id(id, episode, torrent_id): the row gets a key
AddTorrentId(s, e) ==
    /\ e \notin torrents[s]
    /\ torrents' = [torrents EXCEPT ![s] = @ \cup {e}]
    /\ UNCHANGED <<folder, jobArgs>>
    /\ UNCHANGED <<busVars, schedVars, dlVars, watchVars, apiVars, callVars>>

\* an episode file appears in the season folder
FileArrives(s, e) ==
    /\ e \notin folder[s]
    /\ folder' = [folder EXCEPT ![s] = @ \cup {e}]
    /\ UNCHANGED <<torrents, jobArgs>>
    /\ UNCHANGED <<busVars, schedVars, dlVars, watchVars, apiVars, callVars>>

\* the Job of id s fires: handle_subscription_schedule(args[0])
SnapJobFire(s) ==
    /\ jobs[s].state = "live"
    /\ Len(events) < MaxQueue
    /\ events' = OnSchedule(events, s, jobArgs[s])
    /\ UNCHANGED <<handlers, running, loop, disp, registered, nRegs, nEvents>>
    /\ UNCHANGED <<schedVars, dlVars, watchVars, snapVars, apiVars, callVars>>

\* the bus hands the trigger at the head of its queue to
\* handle_subscription_event: the folder is listed as it is now, the torrent
\* ids and the episode count are those of event.subscription
SnapRecStart ==
    /\ events # << >>
    /\ RecStart(folder[Head(events).sub], Head(events).tids, Cardinality(Episodes), FALSE)

\* the subscriptions whose episodes are being downloaded and seeded
Seeding == {"s1"}

\* SpecSnap: start(), the Jobs and the reconciliation handler while torrent
\* ids are recorded and episode files arrive for one of the subscriptions.
\* Nothing rebuilds a Job here: update_subscription is called by the
\* reconciliation only, after it wrote COMPLETED
NextSnap ==
    \/ SnapStartRead
    \/ SnapStartInstall
    \/ StartDone
    \/ \E s \in Seeding, e \in Episodes : AddTorrentId(s, e)
    \/ \E s \in Seeding, e \in Episodes : FileArrives(s, e)
    \/ \E s \in SubIds : SnapJobFire(s)
    \/ SnapRecStart
    \/ RecWrite
    \/ \E s \in SubIds : UpdRead("rec", s)
    \/ UpdApply("rec")
    \/ UpdReturn("rec")
    \/ RecReturn

----------------------------------------------------------------------------
(* Download queue *)

MaxSubmits == 5     \* submit() calls made for one request
MaxHandled == 2     \* dispatches of one request to handle_download_event
RetryCeiling == 3   \* `if event.retry > 3`

ReqIds == {"r1", "r2"}
FileTypes == {"m3u8", "mp4", "mkv", "ass"}

\* the counter stops at the ceiling
IncrementUpToCeiling(n) == IF n >= RetryCeiling THEN n ELSE n + 1

\* event.retry += 1
Increment(n) == n + 1

\* self._queue.put(event): Queue.put is a coroutine function and the call is
\* not awaited, so the coroutine object is dropped and never runs
PutUnawaited(q, r) == q

\* the rest of submit() once the counter is incremented to n
SubmitQueue(q, r, n) == IF n > RetryCeiling THEN q ELSE PutUnawaited(q, r)

\* the requests are DownloadEvents fresh from their constructor (retry = 0),
\* of any file type; run() has not been called
InitDl ==
    /\ dlQueue = << >>
    /\ dlRunning = FALSE
    /\ dlLoop = "init"
    /\ retry = [r \in ReqIds |-> 0]
    /\ fileType \in [ReqIds -> FileTypes]
    /\ submits = [r \in ReqIds |-> 0]
    /\ enqueued = [r \in ReqIds |-> 0]
    /\ handled = [r \in ReqIds |-> 0]

\* submit(event)
Submit(r) ==
    /\ submits[r] < MaxSubmits
    /\ submits' = [submits EXCEPT ![r] = @ + 1]
    /\ retry' = [retry EXCEPT ![r] = Increment(@)]
    /\ dlQueue' = SubmitQueue(dlQueue, r, retry'[r])
    /\ enqueued' = [enqueued EXCEPT ![r] = IF dlQueue' # dlQueue THEN @ + 1 ELSE @]
    /\ UNCHANGED <<dlRunning, dlLoop, fileType, handled>>
    /\ UNCHANGED <<busVars, schedVars, watchVars, snapVars, apiVars, callVars>>

\* run(): self.running = True, then the loop suspends in self._queue.get()
DlRun ==
    /\ dlLoop = "init"
    /\ dlRunning' = TRUE
    /\ dlLoop' = "get"
    /\ UNCHANGED <<dlQueue, retry, fileType, submits, enqueued, handled>>
    /\ UNCHANGED <<busVars, schedVars, watchVars, snapVars, apiVars, callVars>>

\* what a call `f(x)` of a coroutine function leaves when it is not awaited:
\* the coroutine object is dropped, the body never runs, and the state is
\* the one before the call, whatever the body would have made of it
CallNotAwaited(before, after) == before

\* the bus invokes handle_download_event(event) with request r:
\* `download_service.submit(event)`, without await, and the handler returns
HandleDownloadEvent(r) ==
    /\ handled[r] < MaxHandled
    /\ handled' = [handled EXCEPT ![r] = @ + 1]
    /\ LET n == Increment(retry[r])
           q == SubmitQueue(dlQueue, r, n)
       IN  /\ retry' = CallNotAwaited(retry, [retry EXCEPT ![r] = n])
           /\ dlQueue' = CallNotAwaited(dlQueue, q)
           /\ submits' = CallNotAwaited(submits, [submits EXCEPT ![r] = @ + 1])
           /\ enqueued' = CallNotAwaited(enqueued,
                              [enqueued EXCEPT ![r] = IF q # dlQueue THEN @ + 1 ELSE @])
    /\ UNCHANGED <<dlRunning, dlLoop, fileType>>
    /\ UNCHANGED <<busVars, schedVars, watchVars, snapVars, apiVars, callVars>>

MaxDownloads == 2   \* download() calls made with one request

NoDownloads == [calls |-> 0, m3u8 |-> 0]

\* every file type goes to the M3U8 downloader
DownloaderForAny(t) == "M3u8Downloader"

\* `if event.url.type == FileType.M3U8: await M3u8Downloader.download(event)`,
\* with no else branch
DownloaderFor(t) == IF t = "m3u8" THEN "M3u8Downloader" ELSE "none"

\* download(event) with request r, the call run() makes with what it took
\* from the queue: the downloader of the file type, if there is one, is
\* awaited once; nothing of the request or of the service is assigned
Download(r) ==
    /\ downloads[r].calls < MaxDownloads
    /\ downloads' = [downloads EXCEPT
                        ![r].calls = @ + 1,
                        ![r].m3u8 = IF DownloaderFor(fileType[r]) = "M3u8Downloader"
                                    THEN @ + 1 ELSE @]
    /\ UNCHANGED dlVars
    /\ UNCHANGED <<busVars, schedVars, watchVars, snapVars, apiVars>>

\* SpecDownload: submit() and download() called with requests of every file
\* type
NextDownload ==
    \/ \E r \in ReqIds : Submit(r)
    \/ DlRun
    \/ \E r \in ReqIds : Download(r)

NextDl ==
    \/ \E r \in ReqIds : Submit(r)
    \/ DlRun
    \/ \E r \in ReqIds : HandleDownloadEvent(r)

----------------------------------------------------------------------------
(* Filesystem watch *)

\* the names of watchfiles.Change, and the paths the notifications carry
ChangeNames == {"added", "modified", "deleted"}
Paths == {"download/1/1.mp4", "download/1/2.mp4"}
Changes == [change_type : ChangeNames, path : Paths]

\* what one iteration of awatch yields: a non-empty set of changes
Batches == {b \in SUBSET Changes : b # {} /\ Cardinality(b) <= MaxBatch}

\* FileChangeEvent(change_type.name, path)
FileChangeEvent(c) == [kind |-> "FileChangeEvent", change_type |-> c.change_type, path |-> c.path]

\* WatchService.__init__ assigns stop_event and path; the change_types
\* argument is not assigned to the instance, so self.change_types is no
\* attribute of it
StoresChangeTypes == FALSE

\* event_manager.add_event(...): add_event is a coroutine function and the
\* call is not awaited, so its body (self.events.put) never runs
AddEventUnawaited(q, e) == q

\* awatch called without a stop_event
AwatchIgnoresStop(stop) == FALSE

\* awatch(self.path, stop_event=self.stop_event): the generator yields no
\* further batch and ends once the event it was given is set
AwatchEnds(stop) == stop

\* the queue after the loop body has run over the changes q[from..]
RECURSIVE PublishAll(_, _, _, _)
PublishAll(evs, q, from, types) ==
    IF from > Len(q) THEN evs
    ELSE PublishAll(IF q[from].change_type \in types
                        THEN AddEventUnawaited(evs, FileChangeEvent(q[from]))
                        ELSE evs,
                    q, from + 1, types)

\* the service is constructed with some set of interesting change kinds;
\* start() has not been called
InitWatch ==
    /\ wPc = "idle"
    /\ stopEvent = FALSE
    /\ configured \in SUBSET ChangeNames
    /\ seen = << >>
    /\ stopAt = "never"
    /\ nStarts = 0

\* start(), up to its first suspension inside awatch
WatchStart ==
    /\ wPc \in {"idle", "exited", "raised"}
    /\ nStarts < MaxStarts
    /\ nStarts' = nStarts + 1
    /\ wPc' = "watching"
    /\ UNCHANGED <<stopEvent, configured, seen, stopAt>>
    /\ UNCHANGED <<busVars, schedVars, dlVars, snapVars, apiVars, callVars>>

\* stop() (and __del__): self.stop_event.set()
WatchStop ==
    /\ stopEvent' = TRUE
    /\ stopAt' = IF stopEvent THEN stopAt ELSE wPc
    /\ UNCHANGED <<wPc, configured, seen, nStarts>>
    /\ UNCHANGED <<busVars, schedVars, dlVars, snapVars, apiVars, callVars>>

\* awatch yields the batch b and the for loop runs over it, in the order q.
\* The body has no await: the batch is handled in one step. Evaluating
\* self.change_types at the first change raises AttributeError, which ends
\* start().
AwatchYield(b, q) ==
    /\ wPc = "watching"
    /\ ~AwatchEnds(stopEvent)
    /\ Len(seen) + Cardinality(b) <= MaxSeen
    /\ IF StoresChangeTypes
          THEN /\ seen' = seen \o q
               /\ events' = PublishAll(events, q, 1, configured)
               /\ wPc' = "watching"
          ELSE /\ seen' = Append(seen, q[1])
               /\ events' = events
               /\ wPc' = "raised"
    /\ UNCHANGED <<stopEvent, configured, stopAt, nStarts>>
    /\ UNCHANGED <<handlers, running, loop, disp, registered, nRegs, nEvents>>
    /\ UNCHANGED <<schedVars, dlVars, snapVars, apiVars, callVars>>

\* the generator ends: the async for is left and start() returns
AwatchEnd ==
    /\ wPc = "watching"
    /\ AwatchEnds(stopEvent)
    /\ wPc' = "exited"
    /\ UNCHANGED <<stopEvent, configured, seen, stopAt, nStarts>>
    /\ UNCHANGED <<busVars, schedVars, dlVars, snapVars, apiVars, callVars>>

NextWatch ==
    \/ WatchStart
    \/ WatchStop
    \/ \E b \in Batches : \E q \in Orderings(b) : AwatchYield(b, q)
    \/ AwatchEnd

----------------------------------------------------------------------------
(* The specifications *)

QuietBus ==
    /\ handlers = [k \in Kinds |-> << >>]
    /\ events = << >>
    /\ running = FALSE
    /\ loop = IdleLoop
    /\ disp = NoDisp
    /\ registered = [k \in Kinds |-> << >>]
    /\ nRegs = 0
    /\ nEvents = 0

QuietSched ==
    /\ repo = [s \in SubIds |-> [status |-> "UPDATING", cron |-> "0 * * * *"]]
    /\ jobs = [s \in SubIds |-> NoJob]
    /\ orphans = [s \in SubIds |-> 0]
    /\ startCall = IdleStart
    /\ upd = [c \in Callers |-> IdleUpd]
    /\ rec = IdleRec
    /\ stopped = FALSE

QuietDl ==
    /\ dlQueue = << >>
    /\ dlRunning = FALSE
    /\ dlLoop = "init"
    /\ retry = [r \in ReqIds |-> 0]
    /\ fileType = [r \in ReqIds |-> "m3u8"]
    /\ submits = [r \in ReqIds |-> 0]
    /\ enqueued = [r \in ReqIds |-> 0]
    /\ handled = [r \in ReqIds |-> 0]

\* only the bus moves
QuietWatch ==
    /\ wPc = "idle"
    /\ stopEvent = FALSE
    /\ configured = ChangeNames
    /\ seen = << >>
    /\ stopAt = "never"
    /\ nStarts = 0

QuietSnap ==
    /\ torrents = [s \in SubIds |-> {}]
    /\ folder = [s \in SubIds |-> {}]
    /\ jobArgs = [s \in SubIds |-> {}]

QuietApi == last = NoCall

QuietCalls == downloads = [r \in ReqIds |-> NoDownloads]

InitSpecBus == InitBus /\ QuietSched /\ QuietDl /\ QuietWatch /\ QuietSnap /\ QuietApi /\ QuietCalls

SpecBus == InitSpecBus /\ [][NextBus]_vars

InitSpecKinds == InitKinds /\ QuietSched /\ QuietDl /\ QuietWatch /\ QuietSnap /\ QuietApi /\ QuietCalls

SpecKinds == InitSpecKinds /\ [][NextKinds]_vars

InitSpecApi == InitApi /\ QuietSched /\ QuietDl /\ QuietWatch /\ QuietSnap /\ QuietCalls

SpecApi == InitSpecApi /\ [][NextApi]_vars

InitSpecTable == InitTable /\ QuietSched /\ QuietDl /\ QuietWatch /\ QuietSnap /\ QuietApi /\ QuietCalls

SpecTable == InitSpecTable /\ [][NextTable]_vars

\* only the scheduler and the reconciliation handler move
InitSpecSched == QuietBus /\ InitSched /\ QuietDl /\ QuietWatch /\ QuietSnap /\ QuietApi /\ QuietCalls

SpecSched == InitSpecSched /\ [][NextSched]_vars

SpecCron == InitSpecSched /\ [][NextCron]_vars

SpecRec == InitSpecSched /\ [][NextRec]_vars

SpecGone == InitSpecSched /\ [][NextGone]_vars

\* only the download queue moves
InitSpecDl == QuietBus /\ QuietSched /\ InitDl /\ QuietWatch /\ QuietSnap /\ QuietApi /\ QuietCalls

SpecDl == InitSpecDl /\ [][NextDl]_vars

SpecDownload == InitSpecDl /\ [][NextDownload]_vars

\* the scheduler and the reconciliation handler with the repository rows and
\* the season folders filling up
InitSpecSnap == QuietBus /\ InitSched /\ QuietDl /\ QuietWatch /\ InitSnap /\ QuietApi /\ QuietCalls

SpecSnap == InitSpecSnap /\ [][NextSnap]_vars

\* a running timer keeps firing, and the bus and the event loop keep the
\* reconciliation handler going
SpecSnapLive ==
    /\ SpecSnap
    /\ \A s \in SubIds : SF_vars(SnapJobFire(s))
    /\ WF_vars(SnapRecStart)
    /\ WF_vars(RecWrite)
    /\ WF_vars(\E s \in SubIds : UpdRead("rec", s))
    /\ WF_vars(UpdApply("rec"))
    /\ WF_vars(UpdReturn("rec"))
    /\ WF_vars(RecReturn)

\* only the filesystem watch moves
InitSpecWatch == QuietBus /\ QuietSched /\ QuietDl /\ InitWatch /\ QuietSnap /\ QuietApi /\ QuietCalls

SpecWatch == InitSpecWatch /\ [][NextWatch]_vars

\* the event loop resumes start() once the generator it awaits has ended
SpecWatchLive == SpecWatch /\ WF_vars(AwatchEnd)


----------------------------------------------------------------------------
(* Properties of the event bus, checked under SpecBus *)

\* the entries of a list that have priority p, in the order of the list
WithPriority(s, p) == SelectSeq(s, LAMBDA e : e.prio = p)

\* a list is in non-decreasing priority order
NonDecreasing(s) ==
    \A i, j \in 1..Len(s) : i < j => s[i].prio <= s[j].prio

\* the (handler, priority) pairs of the invocations of a dispatch
Invocations(d) ==
    [i \in 1..Len(d.invoked) |-> [h |-> d.invoked[i].h, prio |-> d.invoked[i].prio]]

IsPrefix(s, t) == Len(s) <= Len(t) /\ \A i \in 1..Len(s) : s[i] = t[i]

C2_HandlerIsolation ==
    /\ (loop.pc = "iter" /\ ~disp.touched) =>
          Len(disp.invoked) = loop.idx
    /\ (loop.pc = "check" /\ disp.ev # NoEvent /\ ~disp.touched) =>
          Len(disp.invoked) = Len(disp.snapshot)
          /\ IsPrefix(Invocations(disp), disp.snapshot)
    /\ loop.pc = "exited" => ~running

\* C2 witness: a handler raised during the previous dispatch; in this one
\* the first handler raised too, the second was still invoked, and the
\* dispatch has returned to the run() loop, which is still running.
C2_Witness ==
    /\ loop.pc = "check" /\ running
    /\ disp.ev # NoEvent /\ ~disp.touched /\ disp.prevRaised
    /\ Len(disp.invoked) = 2
    /\ disp.invoked[1].raised
    /\ Len(disp.snapshot) = 2


C28_ExactKindOnly ==
    /\ [](disp.ev # NoEvent =>
            \A i \in 1..Len(disp.invoked) :
               \E j \in 1..Len(registered[disp.ev.kind]) :
                  /\ registered[disp.ev.kind][j].h = disp.invoked[i].h
                  /\ registered[disp.ev.kind][j].prio = disp.invoked[i].prio)
    /\ [][(loop.pc = "task" /\ loop' # loop /\ handlers[loop.cur.kind] = << >>) =>
             /\ loop'.pc = "check"
             /\ disp'.ev = loop.cur /\ disp'.invoked = << >>
             /\ events' = events]_vars

\* C28 witness: an event of a subclass has been consumed with no handler
\* invoked while a handler is registered for the base class, and the loop
\* is back at its head.
C28_Witness ==
    /\ loop.pc = "check" /\ disp.ev # NoEvent
    /\ disp.ev.kind = "SubscriptionEvent"
    /\ handlers[BaseKind] # << >>
    /\ disp.invoked = << >>

\* C32: an add_handler call whose event type is not derived from Event,
\* whose handler is not an async function or whose handler does not take
\* exactly one parameter raises TypeError and leaves the table as it was,
\* and no other add_handler call raises; an add_event call given an object
\* that is not an Event raises TypeError and leaves the queue as it was, and
\* no other add_event call raises.
C32_BadArgumentsRejected ==
    [][(last' # last \/ handlers' # handlers \/ events' # events) =>
          /\ last'.op = "add_handler" =>
                IF \/ last'.type \notin {BaseKind, "SubscriptionEvent", "DownloadEvent"}
                   \/ ~last'.fn.async
                   \/ last'.fn.params # 1
                THEN /\ last'.raised = "TypeError"
                     /\ handlers' = handlers /\ registered' = registered
                     /\ events' = events
                ELSE /\ last'.raised = "none"
                     /\ Len(handlers'[last'.type]) = Len(handlers[last'.type]) + 1
          /\ last'.op = "add_event" =>
                IF last'.type \notin {BaseKind, "SubscriptionEvent", "DownloadEvent"}
                THEN /\ last'.raised = "TypeError"
                     /\ events' = events /\ handlers' = handlers
                ELSE /\ last'.raised = "none"
                     /\ Len(events') = Len(events) + 1]_vars

\* C32 witness: with a handler registered and an event queued, the last
\* call, an add_handler with an async function of two parameters for a
\* class of the bus, has raised TypeError.
C32_Witness ==
    /\ last.op = "add_handler" /\ last.raised = "TypeError"
    /\ last.type = "SubscriptionEvent" /\ last.fn.async /\ last.fn.params = 2
    /\ handlers["SubscriptionEvent"] # << >>
    /\ events # << >>

\* how many entries of the list s are entries of the handler h
TimesIn(s, h) == Cardinality({i \in 1..Len(s) : s[i].h = h})

\* C25: when a dispatch has returned, every handler the table of the event's
\* kind held when the dispatch began has been invoked, and exactly once if
\* the table held it once, also when add_handler or remove_handler changed
\* that table while the dispatch was under way.
C25_SnapshotInvokedOnce ==
    (loop.pc = "check" /\ disp.ev # NoEvent) =>
        \A i \in 1..Len(disp.snapshot) :
            LET h == disp.snapshot[i].h
            IN  /\ TimesIn(disp.invoked, h) >= 1
                /\ TimesIn(disp.snapshot, h) = 1 => TimesIn(disp.invoked, h) = 1

\* a handler declared for kind a may take events of kind k: a is k or the
\* base class Event
Compatible(a, k) == a = k \/ a = "Event"

\* C17 (as the specification states it): add_handler refuses a handler whose
\* declared event kind is neither the kind it is registered for nor a
\* supertype of it, so no table ever holds such an entry.
C17_IncompatibleHandlerRejected ==
    \A k \in Kinds :
       \A i \in 1..Len(handlers[k]) : Compatible(Accepts[handlers[k][i].h], k)

\* C18: remove_handler(k, h) for a handler that has no entry under k leaves
\* the table as it is; for one that has, it takes out one entry of h under
\* k, the others of k keeping their order, and leaves the lists of the
\* other kinds untouched. (Checked under SpecTable.)
C18_RemoveOneRegistration ==
    /\ [](\A k \in Kinds, h \in HandlerIds :
             (\A i \in 1..Len(handlers[k]) : handlers[k][i].h # h) =>
                RemoveFromTable(handlers, k, h) = handlers)
    /\ [][\A k \in Kinds, h \in HandlerIds :
             RemoveHandler(k, h) =>
                /\ \A k2 \in Kinds \ {k} : handlers'[k2] = handlers[k2]
                /\ Len(handlers'[k]) = Len(handlers[k]) - 1
                /\ \E i \in 1..Len(handlers[k]) :
                      /\ handlers[k][i].h = h
                      /\ \A j \in 1..Len(handlers'[k]) :
                            handlers'[k][j] = handlers[k][IF j < i THEN j ELSE j + 1]]_vars

\* C18 witness: two entries of h2 were added behind handle_subscription_event
\* under SubscriptionEvent and the entry of h1, the first of the three, has
\* been removed; the two of h2 are left in their order.
C18_Witness ==
    /\ nRegs = 2
    /\ handlers["SubscriptionEvent"] = <<[h |-> "h2", prio |-> 0], [h |-> "h2", prio |-> 1]>>
    /\ handlers["DownloadEvent"] = <<[h |-> "h2", prio |-> 0]>>

\* C11 (as the specification states it): no handler is invoked for an event
\* that run() takes from the queue after stop() was called, that is, for an
\* event still queued at, or published after, the moment of stop().
C11_NoDispatchAfterStop ==
    ~(disp.afterStop /\ disp.invoked # << >>)

----------------------------------------------------------------------------
(* Properties of the scheduler, checked under SpecSched and SpecCron *)

\* C3: a start() that returns leaves every subscription it was given as
\* UPDATING, and every subscription that is UPDATING in the repository at
\* that moment, with a running Job under its id and no other running timer
\* of that id: a Job found under the id, as after an earlier start(), was
\* stopped before the new one took the key.
C3_StartInstallsOneJobEach ==
    [][(startCall.pc = "read" /\ startCall'.pc = "returned") =>
          /\ \A i \in DOMAIN startCall.list :
                /\ jobs'[startCall.list[i].id].state = "live"
                /\ LiveCount(jobs', orphans', startCall.list[i].id) = 1
          /\ \A s \in SubIds :
                repo'[s].status = "UPDATING" =>
                   /\ jobs'[s].state = "live"
                   /\ LiveCount(jobs', orphans', s) = 1]_vars

\* C3 witness: start() has returned after it found a running Job under an id
\* it was to install, and that id has one running timer.
C3_Witness ==
    /\ startCall.pc = "returned" /\ startCall.replaced
    /\ \E s \in SubIds : jobs[s].state = "live" /\ LiveCount(jobs, orphans, s) = 1

\* C4: in every state reached by interleaving start(), stop(),
\* update_subscription() and the reconciliation handler, no subscription id
\* has more than one running timer.
C4_AtMostOneLiveTimer ==
    \A s \in SubIds : LiveCount(jobs, orphans, s) <= 1

\* C4 witness: update_subscription() has replaced a Job it found under the
\* id while a start() call is suspended between its read and its for-loop.
C4_Witness ==
    /\ startCall.pc = "read"
    /\ \E c \in Callers :
          /\ upd[c].pc = "applied" /\ upd[c].had /\ upd[c].built
          /\ LiveCount(jobs, orphans, upd[c].sub) = 1

\* C5: the step of update_subscription(id) that follows a read of a status
\* other than UPDATING leaves no key id in jobs and no running timer of id,
\* and builds no Job.
C5_NonUpdatingRetiresJob ==
    [][\A c \in Callers :
          (upd[c].pc = "read" /\ upd'[c].pc = "applied" /\ upd[c].status # "UPDATING") =>
             /\ jobs'[upd[c].sub] = NoJob
             /\ LiveCount(jobs', orphans', upd[c].sub) = 0
             /\ ~upd'[c].built]_vars

\* C5 witness: update_subscription() read COMPLETED or PACKED, found a Job
\* under the id, and has run its body.
C5_Witness ==
    \E c \in Callers :
       /\ upd[c].pc = "applied" /\ upd[c].had
       /\ upd[c].status \in {"COMPLETED", "PACKED"}
       /\ jobs[upd[c].sub] = NoJob

\* C6 (as the specification states it): a malformed schedule expression makes
\* neither start() nor update_subscription() raise; after either, jobs has
\* no key for the subscription with the malformed expression and no timer of
\* it runs; and start() installs the Jobs of the other subscriptions it read.
C6_MalformedCronContained ==
    [][/\ (startCall.pc = "read" /\ startCall'.pc # "read") =>
             /\ startCall'.pc = "returned"
             /\ \A i \in DOMAIN startCall.list :
                   IF ValidCron(startCall.list[i].cron)
                   THEN jobs'[startCall.list[i].id].state = "live"
                   ELSE /\ jobs'[startCall.list[i].id] = NoJob
                        /\ LiveCount(jobs', orphans', startCall.list[i].id) = 0
       /\ \A c \in Callers :
             (/\ upd[c].pc = "read" /\ upd'[c].pc = "applied"
              /\ upd[c].status = "UPDATING" /\ ~ValidCron(upd[c].cron)) =>
                /\ jobs'[upd[c].sub] = NoJob
                /\ LiveCount(jobs', orphans', upd[c].sub) = 0]_vars

\* C13: a stop() step leaves jobs without any key and no timer of any
\* subscription running.
C13_StopClearsJobs ==
    [][SchedStop =>
          \A s \in SubIds :
             /\ jobs'[s] = NoJob
             /\ LiveCount(jobs', orphans', s) = 0]_vars

\* C13 witness: start() has installed a Job for each of the two subscriptions
\* and returned, both rows are still UPDATING (so no update_subscription()
\* has retired a Job), and jobs is empty with no timer running: stop() has
\* run since.
C13_Witness ==
    /\ startCall.pc = "returned"
    /\ \A s \in SubIds :
          /\ repo[s].status = "UPDATING"
          /\ jobs[s] = NoJob
          /\ LiveCount(jobs, orphans, s) = 0

\* C26: from the return of stop() until start() or update_subscription() is
\* next invoked, the Job map is empty and no Job is live, also when an
\* update_subscription() or a start() that was suspended in its repository
\* read before stop() resumes after it.
C26_StoppedStaysStopped ==
    stopped => \A s \in SubIds : jobs[s] = NoJob /\ LiveCount(jobs, orphans, s) = 0

\* C23 (as the specification states it): when a subscription is COMPLETED
\* and no start(), update_subscription() or reconciliation is under way (so
\* that every call that was in progress when the status was written has
\* returned), no timer of that subscription is running. Violated: a start()
\* that read the row while it was UPDATING installs a Job after the
\* reconciliation retired the old one.
C23_NoJobOnceCompleted ==
    \A s \in SubIds :
        (/\ repo[s].status = "COMPLETED"
         /\ startCall.pc = "idle"
         /\ \A c \in Callers : upd[c].pc = "idle"
         /\ rec.pc = "idle")
            => LiveCount(jobs, orphans, s) = 0

\* C14 (amended): the step of update_subscription(id) that follows a read of
\* status UPDATING and of a well-formed schedule expression leaves under id
\* a running Job built from the expression read, and no other running timer
\* of id, whether or not a Job was there before.
C14_UpdatingReinstallsJob ==
    [][\A c \in Callers :
          (/\ upd[c].pc = "read" /\ upd'[c].pc = "applied"
           /\ upd[c].status = "UPDATING" /\ ValidCron(upd[c].cron)) =>
             /\ jobs'[upd[c].sub] = [state |-> "live", cron |-> upd[c].cron]
             /\ LiveCount(jobs', orphans', upd[c].sub) = 1
             /\ upd'[c].built]_vars

\* C14 witness: update_subscription() found a Job under the id and has put
\* in its place a running Job with the expression the row was given since.
C14_Witness ==
    \E c \in Callers :
       /\ upd[c].pc = "applied" /\ upd[c].had /\ upd[c].built
       /\ upd[c].status = "UPDATING"
       /\ repo[upd[c].sub].cron = "30 * * * *"
       /\ jobs[upd[c].sub] = [state |-> "live", cron |-> "30 * * * *"]
       /\ LiveCount(jobs, orphans, upd[c].sub) = 1

\* C14 (as the specification states it): the step of update_subscription(id)
\* that follows a read of status UPDATING leaves exactly one running Job of
\* id, built from the expression read, whatever that expression is.
C14_UpdatingAlwaysInstalls ==
    [][\A c \in Callers :
          (upd[c].pc = "read" /\ upd'[c].pc = "applied" /\ upd[c].status = "UPDATING") =>
             /\ jobs'[upd[c].sub] = [state |-> "live", cron |-> upd[c].cron]
             /\ LiveCount(jobs', orphans', upd[c].sub) = 1]_vars

\* C12 (as the specification states it): a status written by the
\* reconciliation handler changes a row only from UPDATING to COMPLETED; a
\* row that is COMPLETED or PACKED keeps its status, also when the trigger
\* event reconciled was published before the row got that status.
C12_OnlyUpdatingToCompleted ==
    [][(rec.pc = "write" /\ rec'.pc = "update") =>
          \A s \in SubIds :
             repo'[s].status # repo[s].status =>
                (repo[s].status = "UPDATING" /\ repo'[s].status = "COMPLETED")]_vars

----------------------------------------------------------------------------
(* Properties of the reconciliation handler, checked under SpecRec *)

\* the episodes of the DownloadEvents a reconciliation has published
PublishedEpisodes(r) == {r.published[i].episode : i \in 1..Len(r.published)}

\* C7: a reconciliation takes the completion path exactly when the number of
\* local episodes, the episode count and the number of torrent ids are
\* equal; on that path it writes COMPLETED, the update_subscription() call it
\* makes reads that status and leaves no Job under the id, and the
\* reconciliation calls no platform and publishes no DownloadEvent.
C7_CompletionPath ==
    /\ [](/\ (rec.pc \in {"write", "list"} \/ rec.path = "unknown_platform") =>
                ((rec.path = "complete") <=>
                    (Cardinality(rec.local) = rec.count
                        /\ rec.count = Cardinality(rec.tkeys)))
          /\ rec.path = "complete" =>
                /\ rec.calls = 0 /\ rec.published = << >>
                /\ rec.pc \in {"update", "updating", "done"} =>
                      repo[rec.sub].status = "COMPLETED"
                /\ rec.pc = "updating" =>
                      /\ upd["rec"].sub = rec.sub
                      /\ upd["rec"].status = "COMPLETED")
    /\ [][(upd["rec"].pc = "read" /\ upd'["rec"].pc = "applied") =>
             /\ jobs'[rec.sub] = NoJob
             /\ LiveCount(jobs', orphans', rec.sub) = 0]_vars

\* C7 witness: a reconciliation that found two local episodes, an episode
\* count of two and two torrent ids has written COMPLETED, and its
\* update_subscription() call has removed the Job that was under the id.
C7_Witness ==
    /\ rec.path = "complete" /\ Cardinality(rec.local) = 2
    /\ upd["rec"].pc = "applied" /\ upd["rec"].had
    /\ repo[rec.sub].status = "COMPLETED"
    /\ jobs[rec.sub] = NoJob
    /\ rec.calls = 0 /\ rec.published = << >>

\* C8: on the remote path every DownloadEvent published carries the
\* subscription, retry 0 and an episode the platform lists and the folder
\* lacks, no episode twice; and when every platform call has succeeded and
\* the reconciliation is over, the episodes published are exactly those the
\* platform lists and the folder lacks (none when there is none).
C8_PublishesMissingEpisodes ==
    /\ \A i \in 1..Len(rec.published) :
          /\ rec.published[i].kind = "DownloadEvent"
          /\ rec.published[i].sub = rec.sub
          /\ rec.published[i].retry = 0
          /\ rec.published[i].episode \in rec.latest
          /\ rec.published[i].episode \notin rec.local
    /\ Cardinality(PublishedEpisodes(rec)) = Len(rec.published)
    /\ (rec.pc = "done" /\ rec.path \in {"links", "nothing"} /\ ~rec.failed) =>
          PublishedEpisodes(rec) = {e \in rec.latest : e \notin rec.local}

\* C8 witness: the folder holds one episode of the two the platform lists,
\* every call succeeded, and the reconciliation has published one event.
C8_Witness ==
    /\ rec.pc = "done" /\ rec.path = "links" /\ ~rec.failed
    /\ Cardinality(rec.local) = 1 /\ rec.local \subseteq rec.latest
    /\ Cardinality(rec.latest) = 2
    /\ Len(rec.published) = 1

C33_MissingRowChangesNothing ==
    [][\A c \in Callers :
          /\ (upd[c].pc = "idle" /\ upd'[c].pc = "read" /\ upd'[c].status = Absent) =>
                 UNCHANGED <<jobs, orphans, repo>>
          /\ (upd[c].pc = "read" /\ upd'[c].pc = "applied" /\ upd[c].status = Absent) =>
                 /\ UNCHANGED <<jobs, orphans, repo>>
                 /\ ~upd'[c].built
          /\ (upd[c].pc = "applied" /\ upd'[c].pc = "idle" /\ upd[c].status = Absent) =>
                 UNCHANGED <<jobs, orphans, repo>>]_vars

\* C33 witness: update_subscription() has run its body for an id whose row
\* was deleted while the Job start() installed for it is running, and the
\* Job is still running.
C33_Witness ==
    /\ upd["api"].pc = "applied" /\ upd["api"].status = Absent
    /\ upd["api"].had
    /\ jobs[upd["api"].sub].state = "live"

\* the paths of a reconciliation that ends at the platform lookup or at the
\* episode list
AbortedPaths == {"unknown_platform", "list_failed"}

\* C15: a reconciliation whose platform is not registered, or whose
\* get_episodes_list call fails, ends by returning: it has published no
\* DownloadEvent and called the platform at most for the list, and its
\* steps leave the repository rows, jobs and every timer as they were and
\* put nothing on the bus queue.
C15_AbortLeavesStateUnchanged ==
    /\ [](rec.path \in AbortedPaths =>
             /\ rec.pc = "done"
             /\ rec.published = << >>
             /\ rec.calls = IF rec.path = "list_failed" THEN 1 ELSE 0)
    /\ [][(rec' # rec /\ (rec.path \in AbortedPaths \/ rec'.path \in AbortedPaths)) =>
             /\ repo' = repo /\ jobs' = jobs /\ orphans' = orphans
             /\ (events' = events \/ events' = Tail(events))]_vars

\* C15 witness: the episode list could not be fetched and the reconciliation
\* is over; the row is UPDATING and its Job is running.
C15_Witness ==
    /\ rec.pc = "done" /\ rec.path = "list_failed"
    /\ repo[rec.sub].status = "UPDATING"
    /\ jobs[rec.sub].state = "live"
    /\ rec.published = << >>

\* the number of DownloadEvents for episode e a reconciliation has published
PublishedFor(r, e) ==
    Cardinality({i \in 1..Len(r.published) : r.published[i].episode = e})

\* C16: in the for-loop over the missing episodes one get_download_link call
\* has been made for each episode tried so far; each episode tried has one
\* DownloadEvent published if its call succeeded and none if it failed,
\* whatever happened to the others and in whatever order they were taken;
\* and the loop ends only when every missing episode has been tried.
C16_PartialFailure ==
    rec.path = "links" =>
       LET missing == {e \in rec.latest : e \notin rec.local}
           tried == missing \ rec.todo
       IN  /\ rec.todo \subseteq missing
           /\ rec.calls = 1 + Cardinality(tried)
           /\ rec.fetched \subseteq tried
           /\ \A e \in tried :
                 PublishedFor(rec, e) = IF e \in rec.fetched THEN 1 ELSE 0
           /\ \A e \in rec.todo : PublishedFor(rec, e) = 0
           /\ rec.pc = "done" => rec.todo = {}

\* C16 witness: two episodes were missing; the link of episode 1 could not
\* be fetched, that of episode 2 was, and one event, for episode 2, has been
\* published.
C16_Witness ==
    /\ rec.pc = "done" /\ rec.path = "links" /\ rec.failed
    /\ rec.local = {} /\ rec.latest = {1, 2}
    /\ rec.fetched = {2}
    /\ Len(rec.published) = 1 /\ rec.published[1].episode = 2

----------------------------------------------------------------------------
(* Properties of the Jobs' snapshots, checked under SpecSnap and SpecSnapLive *)

\* the folder of s holds as many episodes as expected and the row of s has
\* as many torrent ids
AllSeeded(s) ==
    /\ Cardinality(folder[s]) = Cardinality(Episodes)
    /\ Cardinality(torrents[s]) = Cardinality(Episodes)

\* C21 (as the specification states it): once the local episodes, the
\* expected count and the torrent ids recorded in the repository agree (in
\* SpecSnap they agree for good from then on) and a Job of the subscription
\* is running, the subscription eventually becomes COMPLETED and its Job is
\* retired. Violated: the Job's events carry the torrent ids of the row as
\* it was when the Job was built.
C21_CompletionEventuallyDetected ==
    \A s \in SubIds :
        (AllSeeded(s) /\ jobs[s].state = "live")
            ~> (repo[s].status = "COMPLETED" /\ jobs[s] = NoJob)

\* the reconciliation handler has been handed a trigger of s that carries
\* the torrent ids t and has not yet gone past its completion test
Reconciling(s, t) ==
    rec.pc \in {"write", "done"} /\ rec.sub = s /\ rec.tkeys = t

\* C29: a fire of the Job of s appends one SubscriptionEvent, carrying the
\* subscription the Job was built with, to the bus queue and leaves the Jobs
\* as they are; every trigger in the queue is eventually handed to the
\* reconciliation handler; and a running Job does get a trigger of its
\* subscription to the handler. (Checked under SpecSnapLive.)
C29_FireReachesReconciliation ==
    /\ [][\A s \in SubIds :
             SnapJobFire(s) =>
                /\ events' = Append(events, TriggerEvent(s, jobArgs[s]))
                /\ jobs' = jobs /\ orphans' = orphans]_vars
    /\ \A s \in SubIds, t \in SUBSET Episodes :
          (\E i \in DOMAIN events : events[i] = TriggerEvent(s, t)) ~> Reconciling(s, t)
    /\ \A s \in SubIds :
          (jobs[s].state = "live") ~> (\E t \in SUBSET Episodes : Reconciling(s, t))

\* C29 witness: the Job of s1, built when the row had one torrent id, fired
\* and its trigger, which carries that one id, is with the handler.
C29_Witness ==
    /\ jobs["s1"].state = "live" /\ Cardinality(jobArgs["s1"]) = 1
    /\ Reconciling("s1", jobArgs["s1"])

----------------------------------------------------------------------------
(* Properties of the filesystem watch, checked under SpecWatch *)

\* how often x occurs in the sequence q
Occurrences(q, x) == Cardinality({i \in 1..Len(q) : q[i] = x})

\* C19 (as the specification states it): for every change the watch loop
\* has taken up, the bus queue holds one FileChangeEvent of that kind and
\* path if the kind is among the configured ones, and none otherwise.
\* Violated: the first change makes start() raise and nothing is enqueued.
C19_InterestingChangePublished ==
    \A c \in Changes :
        Occurrences(events, FileChangeEvent(c)) =
            IF c.change_type \in configured THEN Occurrences(seen, c) ELSE 0

\* C20: whenever the stop signal is set while start() is suspended in
\* awatch, start() eventually returns; and once the signal is set the loop
\* takes up no further notification and the bus queue receives nothing.
\* (Checked under SpecWatchLive.)
C20_StopEndsLoop ==
    /\ (stopEvent /\ wPc = "watching") ~> (wPc = "exited")
    /\ [][stopEvent => (seen' = seen /\ events' = events)]_vars

\* C20 witness: stop() was called while start() was suspended in awatch,
\* and start() has returned.
C20_Witness == wPc = "exited" /\ stopAt = "watching" /\ stopEvent

----------------------------------------------------------------------------
(* Properties of the download queue, checked under SpecDl *)

\* the number of places of the queue that hold request r
InQueue(r) == Cardinality({i \in 1..Len(dlQueue) : dlQueue[i] = r})

\* C9: every submit() call adds one to the retry counter of its request; a
\* request is put in the queue at most three times however often it is
\* submitted, and never by a call that takes its counter above three.
C9_RetryCeiling ==
    \A r \in ReqIds :
       /\ retry[r] = submits[r]
       /\ enqueued[r] <= RetryCeiling
       /\ enqueued[r] <= submits[r]
       /\ InQueue(r) <= enqueued[r]

\* C9 witness: a request has been submitted four times, its counter is four
\* and the queue does not hold it a fourth time.
C9_Witness ==
    \E r \in ReqIds :
       /\ submits[r] = 4 /\ retry[r] = 4
       /\ enqueued[r] <= 3 /\ InQueue(r) <= 3

\* C22 (as the specification states it): when handle_download_event has
\* returned from the first dispatch of a request that nothing else has
\* submitted, the request's retry counter is 1 and the request has been put
\* in the download queue once. Violated: the handler's call of submit() is
\* not awaited.
C22_HandlerSubmits ==
    \A r \in ReqIds :
        (handled[r] = 1 /\ submits[r] = 0) =>
            (retry[r] = 1 /\ enqueued[r] = 1 /\ InQueue(r) = 1)

C31_OnlyM3u8Dispatched ==
    /\ [](\A r \in ReqIds :
            downloads[r].m3u8 = IF fileType[r] = "m3u8" THEN downloads[r].calls ELSE 0)
    /\ [][downloads' # downloads =>
             UNCHANGED <<dlQueue, retry, fileType, enqueued, dlRunning, dlLoop>>]_vars

\* C31 witness: download() was called twice with an M3U8 request, which
\* made two calls of the M3U8 downloader, and once with a request of another
\* type, which made none.
C31_Witness ==
    \E r, o \in ReqIds :
       /\ fileType[r] = "m3u8" /\ downloads[r].calls = 2 /\ downloads[r].m3u8 = 2
       /\ fileType[o] # "m3u8" /\ downloads[o].calls = 1 /\ downloads[o].m3u8 = 0

\* C10 (as the specification states it): a submit() call that leaves the
\* retry counter at three or less appends the request to the queue.
C10_SubmitEnqueues ==
    [][\A r \in ReqIds :
          (submits'[r] = submits[r] + 1 /\ retry'[r] <= RetryCeiling) =>
             dlQueue' = Append(dlQueue, r)]_vars

====
